---- MODULE Spec2Model ----
\* Model of the cooperative XML event writer of src/writer/async_tokio.rs
\* (Writer::write_event_async, write_indent_async, write_async,
\* write_wrapped_async), of the Indentation tracker it uses and of the
\* blocking writer it is compared with.
EXTENDS Integers, Sequences, FiniteSets, TLC

\* aw: the cooperative writer (sink and tracker); bw: the blocking writer
\* given the same calls; hist: the calls made so far, each with the writer it
\* found and whether it was suspended on the way; payload: the content the
\* events of this run carry; fut: the write_event_async call that has
\* started and not returned, <<>> if none
VARIABLES aw, bw, hist, payload, fut

vars == <<aw, bw, hist, payload, fut>>

\* ---------------------------------------------------------------- bounds
\* number of calls in a run in which any event may be written and the sink
\* may fail
MaxEvents == 2
\* number of calls in one run during which the sink fails a write
MaxFailures == 1
\* number of calls in a run of element, text and comment events that meets no
\* sink failure
MaxLong == 4
\* number of bytes a failing write_all accepts before it fails, when it
\* accepts any
MaxPartial == 1
\* the unit_width given to new_with_indent
IndentSize == 2

\* ---------------------------------------------------------------- bytes
Min(a, b) == IF a < b THEN a ELSE b

RECURSIVE Repeat(_, _)
Repeat(c, n) == IF n <= 0 THEN <<>> ELSE <<c>> \o Repeat(c, n - 1)

IsPrefix(p, s) == Len(p) <= Len(s) /\ SubSeq(s, 1, Len(p)) = p

IsProperPrefix(p, s) == Len(p) < Len(s) /\ SubSeq(s, 1, Len(p)) = p

\* the bytes of s after its first n bytes
Drop(s, n) == SubSeq(s, n + 1, Len(s))

\* ---------------------------------------------------------------- events
Kinds == {"Start", "End", "Empty", "Text", "Comment", "CData",
          "Decl", "PI", "DocType", "Eof"}

\* the kinds written in the longer runs
LongKinds == {"Start", "End", "Empty", "Text", "Comment", "CData"}

\* the payloads an event can carry (pre-escaped content, opaque to the writer)
Payloads == {<<>>, <<"a", "\n">>}

Ok(w) == [w |-> w, res |-> "Ok"]

\* ---------------------------------------------------------------- sink
\* The sink (W: AsyncWrite): the bytes it holds, and for the call in
\* progress which write_all of the call fails (failAt, 0 = none) and how many
\* bytes that write accepts first; calls, errs and late count the
\* write_all calls of the call in progress, those that failed, and those
\* made after a failure.
NewSink == [buf |-> <<>>, failAt |-> 0, accept |-> 0,
            calls |-> 0, errs |-> 0, late |-> 0]

NoFailure == [failAt |-> 0, accept |-> 0]

\* a call makes at most five writes (write_wrapped_async)
Oracles == {NoFailure} \cup [failAt : 1..5, accept : {0, MaxPartial}]

\* the sink as the next call finds it: o decides the fate of its writes
Arm(w, o) == [w EXCEPT !.writer = [@ EXCEPT !.failAt = o.failAt,
                                            !.accept = o.accept,
                                            !.calls = 0, !.errs = 0,
                                            !.late = 0]]

\* the sink once the call is over: the fate of its writes is decided anew
\* for the next call
Disarm(w) == [w EXCEPT !.writer = [@ EXCEPT !.failAt = 0, !.accept = 0]]

\* self.writer.write_all(value).await: all of value is appended, or the write
\* fails after a strict prefix of it; an empty value never reaches the sink
write_all(w, value) ==
    LET s == w.writer
        n == s.calls + 1
        lt == IF s.errs > 0 THEN s.late + 1 ELSE s.late
    IN IF Len(value) > 0 /\ n = s.failAt
       THEN [w |-> [w EXCEPT !.writer =
                      [s EXCEPT !.buf = @ \o SubSeq(value, 1,
                                              Min(s.accept, Len(value) - 1)),
                                !.calls = n, !.errs = @ + 1, !.late = lt]],
             res |-> "Err"]
       ELSE [w |-> [w EXCEPT !.writer =
                      [s EXCEPT !.buf = @ \o value, !.calls = n, !.late = lt]],
             res |-> "Ok"]

\* ---------------------------------------------------------------- tracker
\* Indentation: Option<Indentation> is <<>> (None) or <<i>> (Some(i))
Indentation_new(fill, width) ==
    [depth |-> 0, fill |-> fill, width |-> width, should_line_break |-> FALSE]

grow(i) == [i EXCEPT !.depth = @ + 1]

shrink(i) == [i EXCEPT !.depth = @ - 1]

current(i) == Repeat(i.fill, i.depth * i.width)

\* Writer::new(sink) and Writer::new_with_indent(sink, fill, width)
new(sink) == [writer |-> sink, indent |-> <<>>]

new_with_indent(sink, fill, width) ==
    [writer |-> sink, indent |-> <<Indentation_new(fill, width)>>]

\* if let Some(i) = self.indent.as_mut() { i.grow(); }
indent_grow(w) ==
    IF w.indent = <<>> THEN w ELSE [w EXCEPT !.indent = <<grow(w.indent[1])>>]

\* if let Some(i) = self.indent.as_mut() { i.shrink(); }
indent_shrink(w) ==
    IF w.indent = <<>> THEN w
    ELSE [w EXCEPT !.indent = <<shrink(w.indent[1])>>]

\* if let Some(i) = self.indent.as_mut() { i.should_line_break = b; }
set_should_line_break(w, b) ==
    IF w.indent = <<>> THEN w
    ELSE [w EXCEPT !.indent = <<[w.indent[1] EXCEPT !.should_line_break = b]>>]

\* ---------------------------------------------------------------- cooperative writer
\* write_async that keeps the bytes back instead of handing them to the sink
write_async_held(w, value) == Ok(w)

write_async(w, value) == write_all(w, value)

\* self.writer.write_all(value).await? after the call that gave r
then_write_all(r, value) == IF r.res = "Ok" THEN write_all(r.w, value) ELSE r

\* self.write_async(value).await after the calls that gave r, each followed
\* by `?`
then_write_async(r, value) ==
    IF r.res = "Ok" THEN write_async(r.w, value) ELSE r

\* write_async after r without the `?` that should follow r
then_write_async_noabort(r, value) ==
    LET n == write_async(r.w, value)
    IN IF r.res = "Ok" THEN n ELSE [w |-> n.w, res |-> r.res]

\* the line break without the indentation that follows the newline
write_line_break_noindent(w) ==
    IF w.indent # <<>> /\ w.indent[1].should_line_break
    THEN write_all(w, <<"\n">>)
    ELSE Ok(w)

\* the line break decided by what the sink already holds instead of by
\* should_line_break
write_line_break_nonempty(w) ==
    IF w.indent # <<>> /\ w.writer.buf # <<>>
    THEN then_write_all(write_all(w, <<"\n">>), current(w.indent[1]))
    ELSE Ok(w)

\* the newline and the indentation written before a wrapped event
write_line_break(w) ==
    IF w.indent # <<>> /\ w.indent[1].should_line_break
    THEN then_write_all(write_all(w, <<"\n">>), current(w.indent[1]))
    ELSE Ok(w)

\* write_wrapped_async writing `after` before `value`
write_wrapped_async_swapped(w, before, value, after) ==
    then_write_async(
      then_write_async(then_write_async(write_line_break(w), before), after),
      value)

\* write_wrapped_async that does not test should_line_break
write_wrapped_async_unconditional(w, before, value, after) ==
    then_write_async(
      then_write_async(
        then_write_async(
          IF w.indent # <<>>
          THEN then_write_all(write_all(w, <<"\n">>), current(w.indent[1]))
          ELSE Ok(w),
          before),
        value),
      after)

\* write_wrapped_async that drops the `?` after writing `before`
write_wrapped_async_noabort(w, before, value, after) ==
    then_write_async(
      then_write_async_noabort(
        then_write_async(write_line_break(w), before), value),
      after)

write_wrapped_async(w, before, value, after) ==
    then_write_async(
      then_write_async(then_write_async(write_line_break(w), before), value),
      after)

\* an arm of the match that ran to its end with result r
Arm_done(r) == [w |-> r.w, res |-> r.res, ret |-> FALSE]

\* an arm of the match left by a `?` that returns r from write_event_async
Arm_returned(r) == [w |-> r.w, res |-> r.res, ret |-> TRUE]

\* the Start arm with a `?` after the write: a failed write returns before
\* the tracker grows
start_arm_try(r) ==
    IF r.res # "Ok" THEN Arm_returned(r)
    ELSE [w |-> indent_grow(r.w), res |-> r.res, ret |-> FALSE]

\* the Start arm: the tracker grows whatever the result of the write
start_arm(r) == [w |-> indent_grow(r.w), res |-> r.res, ret |-> FALSE]

\* the CData arm: r is the result of the first two writes, each followed by `?`
cdata_arm(r, after) ==
    IF r.res # "Ok" THEN Arm_returned(r)
    ELSE Arm_done(write_async(r.w, after))

\* the End arm with the tracker shrunk after the write, not before
end_arm_late(w, value) ==
    Arm_done([w |-> indent_shrink(
                      write_wrapped_async(w, <<"<", "/">>, value, <<">">>).w),
              res |-> write_wrapped_async(w, <<"<", "/">>, value,
                                          <<">">>).res])

\* the End arm: the tracker shrinks, then the end tag is written
end_arm(w, value) ==
    Arm_done(write_wrapped_async(indent_shrink(w), <<"<", "/">>, value,
                                 <<">">>))

\* the Text arm written like a wrapped event with no delimiters
text_arm_wrapped(w, value) ==
    Arm_done(write_wrapped_async(w, <<>>, value, <<>>))

\* the Text arm: the payload goes to the sink as it is
text_arm(w, value) == Arm_done(write_async(w, value))

\* the match of write_event_async
write_event_arm(w, event) ==
    CASE event.kind = "Start" ->
           start_arm(write_wrapped_async(w, <<"<">>, event.e, <<">">>))
      [] event.kind = "End" -> end_arm(w, event.e)
      [] event.kind = "Empty" ->
           Arm_done(write_wrapped_async(w, <<"<">>, event.e, <<"/", ">">>))
      [] event.kind = "Text" -> text_arm(w, event.e)
      [] event.kind = "Comment" ->
           Arm_done(write_wrapped_async(w, <<"<", "!", "-", "-">>, event.e,
                                        <<"-", "-", ">">>))
      [] event.kind = "CData" ->
           cdata_arm(then_write_async(
                       write_async(w, <<"<", "!", "[", "C", "D", "A", "T",
                                        "A", "[">>),
                       event.e),
                     <<"]", "]", ">">>)
      [] event.kind = "Decl" ->
           Arm_done(write_wrapped_async(w, <<"<", "?">>, event.e, <<"?", ">">>))
      [] event.kind = "PI" ->
           Arm_done(write_wrapped_async(w, <<"<", "?">>, event.e, <<"?", ">">>))
      [] event.kind = "DocType" ->
           Arm_done(write_wrapped_async(w, <<"<", "!", "D", "O", "C", "T",
                                           "Y", "P", "E", " ">>, event.e,
                                        <<">">>))
      [] event.kind = "Eof" -> Arm_done(Ok(w))

\* the end of write_event_async: unless the arm has returned, the flag is set
\* and the arm's result returned
finish(result, next_should_line_break) ==
    IF result.ret
    THEN [w |-> result.w, res |-> result.res]
    ELSE [w |-> set_should_line_break(result.w, next_should_line_break),
          res |-> result.res]

\* the end of write_event_async losing the tracker (taken out of self.indent
\* and not put back) when the write failed
finish_take(result, next_should_line_break) ==
    IF result.res # "Ok"
    THEN [w |-> [result.w EXCEPT !.indent = <<>>], res |-> result.res]
    ELSE [w |-> set_should_line_break(result.w, next_should_line_break),
          res |-> result.res]

\* the end of write_event_async taking back the depth when the write failed
finish_rollback(result, next_should_line_break) ==
    IF result.ret
    THEN [w |-> result.w, res |-> result.res]
    ELSE [w |-> set_should_line_break(
                  IF result.res # "Ok" THEN indent_shrink(result.w)
                  ELSE result.w,
                  next_should_line_break),
          res |-> result.res]

\* write_event_async that never clears next_should_line_break
write_event_async_noclear(w, event) ==
    finish(write_event_arm(w, event), TRUE)

\* write_event_async that loses the tracker when the write failed
write_event_async_take(w, event) ==
    finish_take(write_event_arm(w, event),
                event.kind \notin {"Text", "CData"})

\* write_event_async that takes back the depth of a Start whose write failed
write_event_async_rollback(w, event) ==
    IF event.kind = "Start"
    THEN finish_rollback(write_event_arm(w, event), TRUE)
    ELSE finish(write_event_arm(w, event), event.kind \notin {"Text", "CData"})

write_event_async(w, event) ==
    finish(write_event_arm(w, event), event.kind \notin {"Text", "CData"})

\* write_indent_async that writes the newline without looking for a tracker
write_indent_async_always(w) ==
    IF w.indent # <<>>
    THEN then_write_all(write_all(w, <<"\n">>), current(w.indent[1]))
    ELSE write_all(w, <<"\n">>)

\* write_indent_async that also consumes the pending line break
write_indent_async_clears(w) ==
    IF w.indent # <<>>
    THEN finish(Arm_done(then_write_all(write_all(w, <<"\n">>),
                                        current(w.indent[1]))),
                FALSE)
    ELSE Ok(w)

write_indent_async(w) ==
    IF w.indent # <<>>
    THEN then_write_all(write_all(w, <<"\n">>), current(w.indent[1]))
    ELSE Ok(w)

\* ---------------------------------------------------------------- blocking writer
\* Writer::write_event / write_wrapped / write_indent (the dispatch table,
\* the indent emission and the post-condition on should_line_break)
write(w, value) == write_all(w, value)

then_write(r, value) == IF r.res = "Ok" THEN write(r.w, value) ELSE r

write_wrapped(w, before, value, after) ==
    then_write(
      then_write(
        then_write(
          IF w.indent # <<>> /\ w.indent[1].should_line_break
          THEN then_write(write(w, <<"\n">>), current(w.indent[1]))
          ELSE Ok(w),
          before),
        value),
      after)

Before(kind) ==
    CASE kind \in {"Start", "Empty"} -> <<"<">>
      [] kind = "End" -> <<"<", "/">>
      [] kind = "Comment" -> <<"<", "!", "-", "-">>
      [] kind = "CData" -> <<"<", "!", "[", "C", "D", "A", "T", "A", "[">>
      [] kind \in {"Decl", "PI"} -> <<"<", "?">>
      [] kind = "DocType" -> <<"<", "!", "D", "O", "C", "T", "Y", "P", "E", " ">>
      [] OTHER -> <<>>

After(kind) ==
    CASE kind \in {"Start", "End", "DocType"} -> <<">">>
      [] kind = "Empty" -> <<"/", ">">>
      [] kind = "Comment" -> <<"-", "-", ">">>
      [] kind = "CData" -> <<"]", "]", ">">>
      [] kind \in {"Decl", "PI"} -> <<"?", ">">>
      [] OTHER -> <<>>

IndentBefore(kind) ==
    kind \in {"Start", "End", "Empty", "Comment", "Decl", "PI", "DocType"}

\* the bytes of the event written to w, after the line break when the table
\* asks for one
write_event_bytes(w, event) ==
    CASE IndentBefore(event.kind) ->
           write_wrapped(w, Before(event.kind), event.e, After(event.kind))
      [] event.kind = "Text" -> write(w, event.e)
      [] event.kind = "CData" ->
           then_write(then_write(write(w, Before(event.kind)), event.e),
                      After(event.kind))
      [] OTHER -> Ok(w)

\* the depth after the write and the post-condition on should_line_break,
\* set on every call
write_event_post(r, kind) ==
    [w |-> set_should_line_break(
             IF kind = "Start" THEN indent_grow(r.w) ELSE r.w,
             kind \notin {"Text", "CData"}),
     res |-> r.res]

write_event(w, event) ==
    write_event_post(
      write_event_bytes(IF event.kind = "End" THEN indent_shrink(w) ELSE w,
                        event),
      event.kind)

write_indent(w) ==
    IF w.indent # <<>>
    THEN then_write(write(w, <<"\n">>), current(w.indent[1]))
    ELSE Ok(w)

\* ---------------------------------------------------------------- the caller
\* the events the caller can submit in this run: every kind with the run's
\* payload, Eof with none
Events(p) == {[kind |-> k, e |-> IF k = "Eof" THEN <<>> ELSE p] : k \in Kinds}

\* what a write_indent_async call records in place of an event
NoEvent == [kind |-> "Eof", e |-> <<>>]

\* Start events submitted and not yet closed by an End among the first n calls
RECURSIVE Unmatched(_, _)
Unmatched(h, n) ==
    IF n = 0 THEN 0
    ELSE Unmatched(h, n - 1)
         + (IF h[n].op # "event" THEN 0
            ELSE IF h[n].ev.kind = "Start" THEN 1
            ELSE IF h[n].ev.kind = "End" THEN -1 ELSE 0)

Failures(h) == Cardinality({i \in 1..Len(h) : h[i].res = "Err"})

\* the run so far is one of the longer runs: no sink failure, events of
\* LongKinds only
IsLong(h) ==
    \A i \in 1..Len(h) :
        h[i].res = "Ok" /\ (h[i].op = "event" => h[i].ev.kind \in LongKinds)

\* a further call, of this kind and with the sink following o, stays within
\* the bounds of the run
MayCall(h, kind, o) ==
    \/ Len(h) < MaxEvents /\ (o = NoFailure \/ Failures(h) < MaxFailures)
    \/ Len(h) < MaxLong /\ IsLong(h) /\ kind \in LongKinds /\ o = NoFailure

Configs == {new(NewSink), new_with_indent(NewSink, " ", IndentSize)}

Init ==
    /\ aw \in Configs
    /\ bw = aw
    /\ hist = <<>>
    /\ payload \in Payloads
    /\ fut = <<>>

\* one call of write_event_async; the blocking writer is given the same event
\* and a sink that behaves the same.  The caller keeps Start/End nested: an
\* End is only submitted while a Start is open.
WriteEvent ==
    /\ \E event \in Events(payload), o \in Oracles :
         /\ MayCall(hist, event.kind, o)
         /\ event.kind = "End" => Unmatched(hist, Len(hist)) > 0
         /\ LET r == write_event_async(Arm(aw, o), event)
                b == write_event(Arm(bw, o), event)
            IN /\ aw' = Disarm(r.w)
               /\ bw' = Disarm(b.w)
               /\ hist' = Append(hist, [op |-> "event", ev |-> event,
                                        res |-> r.res, pre |-> aw,
                                        susp |-> FALSE])
    /\ UNCHANGED <<payload, fut>>

\* one call of write_indent_async
WriteIndent ==
    /\ \E o \in Oracles :
         /\ MayCall(hist, "Empty", o)
         /\ LET r == write_indent_async(Arm(aw, o))
                b == write_indent(Arm(bw, o))
            IN /\ aw' = Disarm(r.w)
               /\ bw' = Disarm(b.w)
               /\ hist' = Append(hist, [op |-> "indent", ev |-> NoEvent,
                                        res |-> r.res, pre |-> aw,
                                        susp |-> FALSE])
    /\ UNCHANGED <<payload, fut>>

Next == WriteEvent \/ WriteIndent

Spec == Init /\ [][Next]_vars

\* ---------------------------------------------------------------- the call, poll by poll
\* write_event_async is an async fn: it runs from one .await of write_all to
\* the next, and at each of them the sink may not be ready, in which case the
\* call is suspended there until it is polled again, or dropped.

\* the delimiters the arms give to write_wrapped_async
delimiters(kind) ==
    CASE kind = "Start" -> [before |-> <<"<">>, after |-> <<">">>]
      [] kind = "End" -> [before |-> <<"<", "/">>, after |-> <<">">>]
      [] kind = "Empty" -> [before |-> <<"<">>, after |-> <<"/", ">">>]
      [] kind = "Comment" -> [before |-> <<"<", "!", "-", "-">>,
                              after |-> <<"-", "-", ">">>]
      [] kind \in {"Decl", "PI"} -> [before |-> <<"<", "?">>,
                                     after |-> <<"?", ">">>]
      [] kind = "DocType" ->
           [before |-> <<"<", "!", "D", "O", "C", "T", "Y", "P", "E", " ">>,
            after |-> <<">">>]

\* the values write_wrapped_async hands to write_all, in order
wrapped_writes(w, before, value, after) ==
    (IF w.indent # <<>> /\ w.indent[1].should_line_break
     THEN <<(<<"\n">>), current(w.indent[1])>>
     ELSE <<>>) \o <<before, value, after>>

\* the values the arm of the event hands to write_all, in order, as long as
\* no write fails
event_writes(w, event) ==
    CASE event.kind = "Text" -> <<event.e>>
      [] event.kind = "CData" ->
           <<(<<"<", "!", "[", "C", "D", "A", "T", "A", "[">>), event.e,
             (<<"]", "]", ">">>)>>
      [] event.kind = "Eof" -> <<>>
      [] OTHER -> wrapped_writes(w, delimiters(event.kind).before, event.e,
                                 delimiters(event.kind).after)

\* the code before the first .await that also re-runs the Start arm's grow
enter_grow_first(w, event) ==
    IF event.kind = "End" THEN indent_shrink(w)
    ELSE IF event.kind = "Start" THEN indent_grow(w) ELSE w

\* the code before the first .await: the End arm shrinks the tracker
enter(w, event) == IF event.kind = "End" THEN indent_shrink(w) ELSE w

\* the code after the last .await with the code before the first one run
\* again
leave_reentered(w, event, res, n) ==
    finish(CASE event.kind = "Start" ->
                  start_arm([w |-> enter(w, event), res |-> res])
             [] event.kind = "CData" /\ res # "Ok" /\ n < 3 ->
                  Arm_returned([w |-> enter(w, event), res |-> res])
             [] OTHER -> Arm_done([w |-> enter(w, event), res |-> res]),
           event.kind \notin {"Text", "CData"})

\* the code after the last .await the call reaches: its n-th write_all
\* returned res; the Start arm grows the tracker, the first two writes of
\* the CData arm return their error at once, otherwise should_line_break is
\* set
leave(w, event, res, n) ==
    finish(CASE event.kind = "Start" -> start_arm([w |-> w, res |-> res])
             [] event.kind = "CData" /\ res # "Ok" /\ n < 3 ->
                  Arm_returned([w |-> w, res |-> res])
             [] OTHER -> Arm_done([w |-> w, res |-> res]),
           event.kind \notin {"Text", "CData"})

\* write_all of an empty value returns at once: the writes from the
\* (n+1)-th on that the call passes without meeting the sink
RECURSIVE SkipEmpty(_, _)
SkipEmpty(writes, n) ==
    IF n < Len(writes) /\ writes[n + 1] = <<>>
    THEN SkipEmpty(writes, n + 1)
    ELSE n

\* the sink has taken data more
sink_take(w, data) == [w EXCEPT !.writer.buf = @ \o data]

\* the call f goes on after its n-th write_all returned Ok, the writer
\* being w: to its next write that meets the sink, or to its end
Continue(w, f, n) ==
    LET m == SkipEmpty(f.writes, n)
    IN IF m = Len(f.writes)
       THEN /\ aw' = leave(w, f.ev, "Ok", m).w
            /\ fut' = <<>>
            /\ hist' = Append(hist, [op |-> "event", ev |-> f.ev,
                                     res |-> "Ok", pre |-> f.pre,
                                     susp |-> f.susp])
       ELSE /\ aw' = w
            /\ fut' = <<[f EXCEPT !.idx = m, !.off = 0]>>
            /\ hist' = hist

\* the bytes of the current write the sink has not taken yet
Remaining(f) == Drop(f.writes[f.idx + 1], f.off)

\* the numbers of bytes a sink that does not take all of data may take
Partials(data) == {k \in {0, MaxPartial} : k < Len(data)}

\* no call of the run was cut short by the sink or by its caller
Undisturbed(h) == \A i \in 1..Len(h) : h[i].res = "Ok"

\* write_event_async is called and polled for the first time
BeginEvent ==
    /\ fut = <<>>
    /\ Len(hist) < MaxEvents
    /\ Undisturbed(hist)
    /\ \E event \in Events(payload) :
         /\ event.kind = "End" => Unmatched(hist, Len(hist)) > 0
         /\ Continue(enter(aw, event),
                     [ev |-> event, pre |-> aw,
                      writes |-> event_writes(enter(aw, event), event),
                      idx |-> 0, off |-> 0, pending |-> FALSE,
                      susp |-> FALSE],
                     0)
    /\ UNCHANGED <<bw, payload>>

\* the sink takes the rest of the current write
WriteReady ==
    /\ fut # <<>>
    /\ ~fut[1].pending
    /\ Continue(sink_take(aw, Remaining(fut[1])), fut[1], fut[1].idx + 1)
    /\ UNCHANGED <<bw, payload>>

\* the sink is not ready, having taken none or some of the current write:
\* the call is suspended at this write
WritePending ==
    /\ fut # <<>>
    /\ ~fut[1].pending
    /\ \E k \in Partials(Remaining(fut[1])) :
         /\ aw' = sink_take(aw, SubSeq(Remaining(fut[1]), 1, k))
         /\ fut' = <<[fut[1] EXCEPT !.off = @ + k, !.pending = TRUE,
                                    !.susp = TRUE]>>
    /\ UNCHANGED <<bw, hist, payload>>

\* the sink fails the current write, having taken none or some of it: the
\* call returns the error
WriteFail ==
    /\ fut # <<>>
    /\ ~fut[1].pending
    /\ \E k \in Partials(Remaining(fut[1])) :
         /\ aw' = leave(sink_take(aw, SubSeq(Remaining(fut[1]), 1, k)),
                        fut[1].ev, "Err", fut[1].idx + 1).w
         /\ hist' = Append(hist, [op |-> "event", ev |-> fut[1].ev,
                                  res |-> "Err", pre |-> fut[1].pre,
                                  susp |-> fut[1].susp])
    /\ fut' = <<>>
    /\ UNCHANGED <<bw, payload>>

\* the scheduler polls the suspended call again
Resume ==
    /\ fut # <<>>
    /\ fut[1].pending
    /\ fut' = <<[fut[1] EXCEPT !.pending = FALSE]>>
    /\ UNCHANGED <<aw, bw, hist, payload>>

\* the caller drops the suspended call
Cancel ==
    /\ fut # <<>>
    /\ fut[1].pending
    /\ fut' = <<>>
    /\ hist' = Append(hist, [op |-> "event", ev |-> fut[1].ev,
                             res |-> "Cancelled", pre |-> fut[1].pre,
                             susp |-> TRUE])
    /\ UNCHANGED <<aw, bw, payload>>

NextAsync ==
    \/ BeginEvent
    \/ WriteReady
    \/ WritePending
    \/ WriteFail
    \/ Resume
    \/ Cancel

SpecAsync == Init /\ [][NextAsync]_vars

\* ---------------------------------------------------------------- the caller goes on
\* write_event_async returned the sink's error and the caller, whose sink
\* works again, writes one more event
WriteEventAfterFailure ==
    /\ Len(hist) > 0
    /\ Len(hist) <= MaxEvents
    /\ hist[Len(hist)].res = "Err"
    /\ \E event \in Events(payload) :
         /\ event.kind = "End" => Unmatched(hist, Len(hist)) > 0
         /\ LET r == write_event_async(Arm(aw, NoFailure), event)
                b == write_event(Arm(bw, NoFailure), event)
            IN /\ aw' = Disarm(r.w)
               /\ bw' = Disarm(b.w)
               /\ hist' = Append(hist, [op |-> "event", ev |-> event,
                                        res |-> r.res, pre |-> aw,
                                        susp |-> FALSE])
    /\ UNCHANGED <<payload, fut>>

NextRecover == WriteEvent \/ WriteIndent \/ WriteEventAfterFailure

SpecRecover == Init /\ [][NextRecover]_vars

\* ---------------------------------------------------------------- calls of a run
TextLike == {"Text", "CData"}

\* the cooperative writer before and after the i-th call of the run
PreOf(i) == hist[i].pre

PostOf(i) == IF i = Len(hist) THEN aw ELSE hist[i + 1].pre

IsEvent(i) == hist[i].op = "event"

Pretty(i) == PreOf(i).indent # <<>>

\* the bytes the i-th call added to the sink
Appended(i) == Drop(PostOf(i).writer.buf, Len(PreOf(i).writer.buf))

\* the sink accepted every write of the i-th call
Accepted(i) == PostOf(i).writer.errs = 0

\* the last write_event_async call before the i-th call, 0 if there is none
PrevEvent(i) ==
    LET js == {j \in 1..(i - 1) : hist[j].op = "event"}
    IN IF js = {} THEN 0 ELSE CHOOSE j \in js : \A k \in js : k <= j

\* the bytes of an event without any indentation (the table of section 4.1)
Expected(event) ==
    LET e == event.e
    IN CASE event.kind = "Start" -> <<"<">> \o e \o <<">">>
         [] event.kind = "End" -> <<"<", "/">> \o e \o <<">">>
         [] event.kind = "Empty" -> <<"<">> \o e \o <<"/", ">">>
         [] event.kind = "Text" -> e
         [] event.kind = "Comment" ->
              <<"<", "!", "-", "-">> \o e \o <<"-", "-", ">">>
         [] event.kind = "CData" ->
              <<"<", "!", "[", "C", "D", "A", "T", "A", "[">> \o e
                \o <<"]", "]", ">">>
         [] event.kind \in {"Decl", "PI"} -> <<"<", "?">> \o e \o <<"?", ">">>
         [] event.kind = "DocType" ->
              <<"<", "!", "D", "O", "C", "T", "Y", "P", "E", " ">> \o e
                \o <<">">>
         [] event.kind = "Eof" -> <<>>

\* a newline and the indentation of depth d
LineBreak(i, d) == <<"\n">> \o Repeat(i.fill, d * i.width)

\* the depth at which the event of the i-th call is indented
DepthAt(i) ==
    PreOf(i).indent[1].depth - (IF hist[i].ev.kind = "End" THEN 1 ELSE 0)

\* the line break of the i-th call, an event in pretty mode
LineBreakAt(i) == LineBreak(PreOf(i).indent[1], DepthAt(i))

\* all the bytes the i-th call hands to the sink, given the tracker it found
FullBytes(i) ==
    IF ~Pretty(i) THEN (IF IsEvent(i) THEN Expected(hist[i].ev) ELSE <<>>)
    ELSE IF ~IsEvent(i)
         THEN LineBreak(PreOf(i).indent[1], PreOf(i).indent[1].depth)
    ELSE IF IndentBefore(hist[i].ev.kind)
            /\ PreOf(i).indent[1].should_line_break
         THEN LineBreakAt(i) \o Expected(hist[i].ev)
    ELSE Expected(hist[i].ev)

RECURSIVE Submitted(_)
Submitted(n) == IF n = 0 THEN <<>> ELSE Submitted(n - 1) \o FullBytes(n)

\* ---------------------------------------------------------------- claims
\* C1: in compact mode, when the sink accepts every write of the call,
\* write_event_async returns Ok and appends exactly the delimiters and the
\* payload of the event's kind, and nothing for Eof.
C1_CompactMapping ==
    \A i \in 1..Len(hist) :
        (IsEvent(i) /\ ~Pretty(i) /\ Accepted(i))
            => /\ hist[i].res = "Ok"
               /\ Appended(i) = Expected(hist[i].ev)

C1_Witness ==
    /\ aw.indent = <<>>
    /\ payload # <<>>
    /\ \E i \in 1..Len(hist), j \in 1..Len(hist) :
         /\ IsEvent(i) /\ hist[i].ev.kind = "CData" /\ hist[i].res = "Ok"
         /\ IsEvent(j) /\ hist[j].ev.kind = "DocType" /\ hist[j].res = "Ok"

\* C2: when the sink accepts every write, the sink content after the k-th call
\* is the content after the (k-1)-th call followed by the bytes of the k-th
\* call, so the sink holds the bytes of all calls in the order of submission.
C2_SubmissionOrder ==
    (\A i \in 1..Len(hist) : Accepted(i))
        => /\ aw.writer.buf = Submitted(Len(hist))
           /\ \A i \in 1..Len(hist) :
                PostOf(i).writer.buf = PreOf(i).writer.buf \o FullBytes(i)

C2_Witness ==
    /\ Len(hist) >= 3
    /\ \A i \in 1..Len(hist) : Accepted(i) /\ IsEvent(i)
    /\ hist[1].ev.kind = "Start" /\ hist[2].ev.kind = "Text"
    /\ hist[3].ev.kind = "End"
    /\ payload # <<>>

\* C3: the blocking and the cooperative writer, given the same events, the
\* same configuration and sinks that behave the same, hold the same sink
\* content and the same tracker (depth, should_line_break).
C3_SameAsBlocking ==
    /\ aw.writer.buf = bw.writer.buf
    /\ aw.indent = bw.indent

\* C4: in compact mode a call adds no byte of its own: write_indent_async adds
\* nothing, write_event_async adds the event's delimiters and payload or,
\* when the sink fails, a prefix of them.
C4_CompactNoNewline ==
    \A i \in 1..Len(hist) :
        ~Pretty(i) =>
            IF IsEvent(i)
            THEN IsPrefix(Appended(i), Expected(hist[i].ev))
            ELSE Appended(i) = <<>> /\ hist[i].res = "Ok"

C4_Witness ==
    /\ aw.indent = <<>>
    /\ \E i \in 1..Len(hist), j \in 1..Len(hist) :
         /\ i < j
         /\ IsEvent(i) /\ hist[i].ev.kind = "Start"
         /\ ~IsEvent(j)
         /\ j < Len(hist) /\ hist[j + 1].ev.kind = "Empty" /\ IsEvent(j + 1)

\* C5 as stated: in pretty mode a line break is emitted before every event,
\* except before an event that immediately follows a Text or CData event (the
\* first event, which follows nothing, is left out of the statement here).
C5_Original ==
    \A i \in 1..Len(hist) :
        (IsEvent(i) /\ Pretty(i) /\ Accepted(i) /\ PrevEvent(i) # 0
         /\ hist[PrevEvent(i)].ev.kind \notin TextLike)
            => Appended(i) = LineBreakAt(i) \o Expected(hist[i].ev)

\* C5 amended: in pretty mode a line break (a newline and the indentation of
\* the current depth) is emitted before every Start, End, Empty, Comment,
\* Decl, PI and DocType event that is not the first event and does not
\* immediately follow a Text or CData event; none is emitted before a Text,
\* CData or Eof event, nor before an event that immediately follows a Text or
\* CData event that was written successfully.
C5_LineBreakBeforeMarkup ==
    \A i \in 1..Len(hist) :
        (IsEvent(i) /\ Pretty(i)) =>
            LET j == PrevEvent(i)
                k == hist[i].ev.kind
            IN /\ (IndentBefore(k) /\ Accepted(i) /\ j # 0
                   /\ hist[j].ev.kind \notin TextLike)
                     => Appended(i) = LineBreakAt(i) \o Expected(hist[i].ev)
               /\ (~IndentBefore(k))
                     => IsPrefix(Appended(i), Expected(hist[i].ev))
               /\ (j # 0 /\ hist[j].ev.kind \in TextLike /\ hist[j].res = "Ok")
                     => IsPrefix(Appended(i), Expected(hist[i].ev))

C5_Witness ==
    /\ aw.indent # <<>>
    /\ Len(hist) >= 3
    /\ \A i \in 1..3 : IsEvent(i) /\ hist[i].res = "Ok"
    /\ hist[1].ev.kind = "Start" /\ hist[2].ev.kind = "Start"
    /\ hist[3].ev.kind = "Empty"
    /\ Appended(3) = LineBreak(aw.indent[1], 2) \o Expected(hist[3].ev)

\* C6: in pretty mode no line break is inserted before the first event written
\* after construction, whatever its kind: the call adds the event's own
\* delimiters and payload (a prefix of them when the sink fails).
C6_NoLineBreakBeforeFirst ==
    \A i \in 1..Len(hist) :
        (IsEvent(i) /\ Pretty(i) /\ PrevEvent(i) = 0)
            => /\ IsPrefix(Appended(i), Expected(hist[i].ev))
               /\ Accepted(i) => Appended(i) = Expected(hist[i].ev)

C6_Witness ==
    /\ aw.indent # <<>>
    /\ Len(hist) >= 1
    /\ IsEvent(1) /\ hist[1].ev.kind = "Empty" /\ hist[1].res = "Ok"
    /\ PostOf(1).writer.buf = Expected(hist[1].ev)

\* C7: after every write_event_async call on a pretty-mode writer, whether it
\* returned Ok or an error, should_line_break is false if the event was Text
\* or CData and true for every other kind.
C7_FlagPostcondition ==
    \A i \in 1..Len(hist) :
        (IsEvent(i) /\ Pretty(i))
            => PostOf(i).indent[1].should_line_break
                 = (hist[i].ev.kind \notin TextLike)

\* C8: for a well-nested event sequence on a pretty-mode writer the depth is
\* never negative, is the number of Start events not yet matched by an End,
\* is zero exactly when every Start is matched, and at depth zero current() is
\* empty.
C8_DepthIsOpenStarts ==
    aw.indent # <<>> =>
        LET i == aw.indent[1]
            open == Unmatched(hist, Len(hist))
        IN /\ i.depth >= 0
           /\ i.depth = open
           /\ (i.depth = 0) <=> (open = 0)
           /\ (i.depth = 0) => current(i) = <<>>
           /\ \A n \in 1..Len(hist) :
                hist[n].pre.indent[1].depth = Unmatched(hist, n - 1)

C8_Witness ==
    /\ aw.indent # <<>>
    /\ Len(hist) >= 3
    /\ \A i \in 1..3 : IsEvent(i)
    /\ hist[1].ev.kind = "Start" /\ hist[2].ev.kind = "Start"
    /\ hist[3].ev.kind = "End"
    /\ hist[3].pre.indent[1].depth = 2
    /\ PostOf(3).indent[1].depth = 1

\* C9: when a sink write fails during write_event_async the call returns the
\* error, makes no further write for that event and retries nothing, and the
\* sink holds its previous content followed by a proper prefix of the bytes
\* the event would have produced.
C9_AbortOnSinkFailure ==
    \A i \in 1..Len(hist) :
        (IsEvent(i) /\ ~Accepted(i))
            => /\ hist[i].res = "Err"
               /\ PostOf(i).writer.errs = 1
               /\ PostOf(i).writer.late = 0
               /\ IsPrefix(PreOf(i).writer.buf, PostOf(i).writer.buf)
               /\ IsProperPrefix(Appended(i), FullBytes(i))

C9_Witness ==
    \E i \in 1..Len(hist) :
        /\ IsEvent(i) /\ Pretty(i) /\ hist[i].res = "Err"
        /\ hist[i].ev.kind = "Start"
        /\ PreOf(i).indent[1].should_line_break
        /\ Len(Appended(i)) >= 3

\* C10: a sink failure does not poison the writer: a write_event_async call
\* made after a call that returned an error, and whose sink writes all
\* succeed, returns Ok and appends the complete bytes of its event (with the
\* line break of a writer that is still in pretty mode) after the fragment the
\* failed call left.
C10_NoPoisoning ==
    \A i \in 1..Len(hist) : \A k \in 1..Len(hist) :
        (i < k /\ hist[i].res = "Err" /\ IsEvent(k) /\ Accepted(k))
            => /\ hist[k].res = "Ok"
               /\ Pretty(k) = Pretty(1)
               /\ PostOf(k).writer.buf = PreOf(k).writer.buf \o FullBytes(k)

C10_Witness ==
    /\ Len(hist) >= 2
    /\ IsEvent(1) /\ hist[1].res = "Err" /\ Len(Appended(1)) >= 1
    /\ IsEvent(2) /\ hist[2].res = "Ok" /\ hist[2].ev.kind = "Comment"
    /\ Pretty(2) /\ PreOf(2).indent[1].should_line_break
    /\ Len(Appended(2)) >= 8

\* C11: write_indent_async on a pretty-mode writer writes a newline and the
\* indentation of the current depth whatever should_line_break is, on a
\* compact-mode writer it writes nothing and returns Ok; it never changes the
\* tracker, so a wrapped event right after it still gets its own line break
\* when should_line_break is true.
C11_IndentFrame ==
    \A i \in 1..Len(hist) :
        ~IsEvent(i) =>
          /\ PostOf(i).indent = PreOf(i).indent
          /\ (Pretty(i) /\ Accepted(i)) =>
                /\ hist[i].res = "Ok"
                /\ Appended(i) = LineBreak(PreOf(i).indent[1],
                                           PreOf(i).indent[1].depth)
          /\ ~Pretty(i) => (hist[i].res = "Ok" /\ Appended(i) = <<>>)
          /\ ( /\ i < Len(hist)
               /\ Pretty(i)
               /\ IsEvent(i + 1)
               /\ IndentBefore(hist[i + 1].ev.kind)
               /\ PreOf(i).indent[1].should_line_break
               /\ Accepted(i + 1) )
             => Appended(i + 1) = LineBreakAt(i + 1) \o Expected(hist[i + 1].ev)

\* Start, write_indent_async, Empty on a pretty-mode writer: the indentation
\* asked for is written at depth 1 and the Empty still gets its own
C11_Witness ==
    /\ Len(hist) = 3
    /\ Pretty(1)
    /\ hist[1].op = "event" /\ hist[1].ev.kind = "Start"
    /\ hist[2].op = "indent"
    /\ hist[3].op = "event" /\ hist[3].ev.kind = "Empty"
    /\ PreOf(2).indent[1].should_line_break
    /\ Appended(2) = <<"\n">> \o Repeat(" ", IndentSize)
    /\ Appended(3) = Appended(2) \o Expected(hist[3].ev)

\* C12: what a call writes and the tracker it leaves are a function of the
\* configuration, the tracker's depth and should_line_break, and the event:
\* two calls of a run that find the same tracker and are given the same
\* event on a sink that accepts every write append the same bytes, return
\* the same result and leave the same tracker, whatever the sink holds and
\* whatever was written before.
C12_PureFunction ==
    \A i, j \in 1..Len(hist) :
        ( /\ PreOf(i).indent = PreOf(j).indent
          /\ hist[i].op = hist[j].op
          /\ hist[i].ev = hist[j].ev
          /\ Accepted(i) /\ Accepted(j) )
        => /\ Appended(i) = Appended(j)
           /\ hist[i].res = hist[j].res
           /\ PostOf(i).indent = PostOf(j).indent

\* Empty three times on a pretty-mode writer: the second and the third call
\* find the same tracker and different sink contents, and write the same
C12_Witness ==
    /\ Len(hist) = 3
    /\ Pretty(1)
    /\ \A i \in 1..3 : hist[i].op = "event" /\ hist[i].ev.kind = "Empty"
    /\ PreOf(2).indent = PreOf(3).indent
    /\ PreOf(2).writer.buf # PreOf(3).writer.buf
    /\ Appended(2) = Appended(3)
    /\ Len(Appended(3)) > 3

\* C13: in pretty mode a Start call raises depth by one and its tag is indented
\* at the depth it found; an End call lowers depth by one and its tag is
\* indented at the lowered depth; every other call leaves depth as it was.
C13_DepthFrame ==
    \A i \in 1..Len(hist) :
        Pretty(i) =>
          LET d == PreOf(i).indent[1].depth
              kind == IF IsEvent(i) THEN hist[i].ev.kind ELSE "indent"
          IN /\ PostOf(i).indent[1].depth =
                  d + (IF kind = "Start" THEN 1
                       ELSE IF kind = "End" THEN -1 ELSE 0)
             /\ ( /\ kind \in {"Start", "End"}
                  /\ PreOf(i).indent[1].should_line_break
                  /\ Accepted(i) )
                => Appended(i) =
                     LineBreak(PreOf(i).indent[1],
                               IF kind = "Start" THEN d ELSE d - 1)
                       \o Expected(hist[i].ev)

\* Start, Start, End on a pretty-mode writer: the second Start is indented
\* one level and leaves depth 2, the End is indented one level and leaves
\* depth 1
C13_Witness ==
    /\ Len(hist) = 3
    /\ Pretty(1)
    /\ hist[1].ev.kind = "Start" /\ hist[2].ev.kind = "Start"
    /\ hist[3].ev.kind = "End"
    /\ \A i \in 1..3 : IsEvent(i) /\ Accepted(i)
    /\ PreOf(3).indent[1].depth = 2
    /\ aw.indent[1].depth = 1
    /\ Appended(2) = <<"\n">> \o Repeat(" ", IndentSize)
                       \o Expected(hist[2].ev)
    /\ Appended(3) = <<"\n">> \o Repeat(" ", IndentSize)
                       \o Expected(hist[3].ev)

\* the run so far is made of accepted Start, Empty and End events only
OnlyElements ==
    \A i \in 1..Len(hist) :
        /\ IsEvent(i)
        /\ hist[i].ev.kind \in {"Start", "Empty", "End"}
        /\ hist[i].res = "Ok"

\* the elements open around the event of the i-th call, counted from the
\* events submitted before it
OpenAround(i) ==
    Unmatched(hist, i - 1) - (IF hist[i].ev.kind = "End" THEN 1 ELSE 0)

\* the Start that the End of the i-th call closes
MatchingStart(i) ==
    LET js == {j \in 1..(i - 1) : /\ hist[j].ev.kind = "Start"
                                  /\ Unmatched(hist, j - 1) = Unmatched(hist, i)}
    IN CHOOSE j \in js : \A k \in js : k <= j

\* the fill characters the i-th call wrote before its event
FillOf(i) ==
    LET lead == SubSeq(Appended(i), 1,
                       Len(Appended(i)) - Len(Expected(hist[i].ev)))
    IN IF lead = <<>> THEN <<>> ELSE Drop(lead, 1)

\* C15: in pretty mode, in a well-nested run of Start, Empty and End events,
\* every event after the first is preceded by one newline and (width x d)
\* fill characters, d being the number of elements open around it; an End
\* gets the fill of the Start it closes.
C15_NestedIndentation ==
    (OnlyElements /\ Len(hist) > 0 /\ Pretty(1)) =>
      \A i \in 1..Len(hist) :
          /\ i > 1 =>
                Appended(i) =
                  <<"\n">>
                    \o Repeat(PreOf(i).indent[1].fill,
                              PreOf(i).indent[1].width * OpenAround(i))
                    \o Expected(hist[i].ev)
          /\ hist[i].ev.kind = "End" => FillOf(i) = FillOf(MatchingStart(i))

\* Start, Start, Empty, End on a pretty-mode writer: the Empty is indented
\* two levels, the End one level like the second Start
C15_Witness ==
    /\ OnlyElements
    /\ Len(hist) = 4
    /\ Pretty(1)
    /\ hist[1].ev.kind = "Start" /\ hist[2].ev.kind = "Start"
    /\ hist[3].ev.kind = "Empty" /\ hist[4].ev.kind = "End"
    /\ OpenAround(3) = 2
    /\ Len(FillOf(3)) = 2 * IndentSize
    /\ MatchingStart(4) = 2
    /\ Len(FillOf(4)) = IndentSize
    /\ FillOf(2) = FillOf(4)

\* C17: in pretty mode a Text or CData call writes nothing before the bytes
\* of its event, whatever should_line_break is: what it appends is the
\* event's bytes, or a prefix of them when the sink fails.
C17_NoLineBreakBeforeText ==
    \A i \in 1..Len(hist) :
        (IsEvent(i) /\ Pretty(i) /\ hist[i].ev.kind \in TextLike) =>
          /\ IsPrefix(Appended(i), Expected(hist[i].ev))
          /\ Accepted(i) => Appended(i) = Expected(hist[i].ev)

\* Start then Text on a pretty-mode writer: should_line_break is true when
\* the Text is written and the text follows the '>' of the start tag
C17_Witness ==
    /\ Len(hist) = 2
    /\ Pretty(1)
    /\ IsEvent(1) /\ hist[1].ev.kind = "Start"
    /\ IsEvent(2) /\ hist[2].ev.kind = "Text"
    /\ PreOf(2).indent[1].should_line_break
    /\ payload # <<>>
    /\ aw.writer.buf = <<"<">> \o payload \o <<">">> \o payload

\* C18: in pretty mode a Start call that returns the sink's error has raised
\* depth by one all the same, and an End call that returns the sink's error
\* has lowered it by one; depth is not put back.
C18_DepthOnFailure ==
    \A i \in 1..Len(hist) :
        (IsEvent(i) /\ Pretty(i) /\ hist[i].res = "Err") =>
          /\ hist[i].ev.kind = "Start" =>
                PostOf(i).indent[1].depth = PreOf(i).indent[1].depth + 1
          /\ hist[i].ev.kind = "End" =>
                PostOf(i).indent[1].depth = PreOf(i).indent[1].depth - 1

\* Start accepted, then a Start whose tag the sink refuses part-way: the
\* call returns the error and depth is 2
C18_Witness ==
    /\ Len(hist) = 2
    /\ Pretty(1)
    /\ IsEvent(1) /\ hist[1].ev.kind = "Start" /\ hist[1].res = "Ok"
    /\ IsEvent(2) /\ hist[2].ev.kind = "Start" /\ hist[2].res = "Err"
    /\ IsProperPrefix(Appended(2), FullBytes(2))
    /\ PreOf(2).indent[1].depth = 1
    /\ aw.indent[1].depth = 2

\* the cooperative writer after the i-th call of a run whose last call may
\* not have returned yet
PostAsync(i) ==
    IF i < Len(hist) THEN hist[i + 1].pre
    ELSE IF fut = <<>> THEN aw ELSE fut[1].pre

\* the first n values of writes, one after the other
RECURSIVE Flat(_, _)
Flat(writes, n) ==
    IF n = 0 THEN <<>> ELSE Flat(writes, n - 1) \o writes[n]

\* the write_all the i-th call may have failed at and the bytes that write
\* may have taken by then
FailuresOf(i) ==
    [failAt : 1..5, accept : 0..Len(FullBytes(i))]

\* the i-th call left the sink and the tracker as write_event_async run in
\* one piece on a sink that follows o leaves them, and returned the same
SameAsUnsuspended(i, o) ==
    /\ write_event_async(Arm(PreOf(i), o), hist[i].ev).res = hist[i].res
    /\ write_event_async(Arm(PreOf(i), o), hist[i].ev).w.writer.buf
         = PostAsync(i).writer.buf
    /\ write_event_async(Arm(PreOf(i), o), hist[i].ev).w.indent
         = PostAsync(i).indent

\* C14: however a write_event_async call is suspended at its sink writes and
\* resumed, the sink holds at every moment the writes made so far, each once
\* and in order, the tracker is not touched between them, and when the call
\* returns the sink, depth, should_line_break and the result are those of
\* the call run without suspension.
C14_SuspensionTransparent ==
    /\ fut # <<>> =>
         /\ aw.writer.buf =
              fut[1].pre.writer.buf
                \o Flat(fut[1].writes, fut[1].idx)
                \o SubSeq(fut[1].writes[fut[1].idx + 1], 1, fut[1].off)
         /\ aw.indent = enter(fut[1].pre, fut[1].ev).indent
    /\ \A i \in 1..Len(hist) :
         /\ hist[i].res = "Ok" => SameAsUnsuspended(i, NoFailure)
         /\ hist[i].res = "Err" =>
               \E o \in FailuresOf(i) : SameAsUnsuspended(i, o)

\* Start, then an End on a pretty-mode writer that was suspended on the way
\* and returned Ok: the end tag is there once, on its own line, depth is 0
C14_Witness ==
    /\ fut = <<>>
    /\ Len(hist) = 2
    /\ Pretty(1)
    /\ hist[1].ev.kind = "Start" /\ hist[2].ev.kind = "End"
    /\ hist[2].susp /\ hist[2].res = "Ok"
    /\ payload # <<>>
    /\ aw.writer.buf = Expected(hist[1].ev) \o <<"\n">> \o Expected(hist[2].ev)
    /\ aw.indent[1].depth = 0
    /\ aw.indent[1].should_line_break

\* C19: when a write_event_async call on a pretty-mode writer is dropped
\* while suspended at a sink write, should_line_break is what it was before
\* the call, whatever the event; depth is what it was before the call,
\* except for an End, where it is one lower although the end tag is not all
\* written.
C19_CancelledCall ==
    \A i \in 1..Len(hist) :
        (hist[i].res = "Cancelled" /\ Pretty(i)) =>
          /\ PostAsync(i).indent[1].should_line_break
               = PreOf(i).indent[1].should_line_break
          /\ PostAsync(i).indent[1].depth
               = PreOf(i).indent[1].depth
                   - (IF hist[i].ev.kind = "End" THEN 1 ELSE 0)
          /\ IsProperPrefix(
               Drop(PostAsync(i).writer.buf, Len(PreOf(i).writer.buf)),
               FullBytes(i))

\* Start, then an End dropped while suspended after part of its tag went to
\* the sink: depth is 0, should_line_break still true
C19_Witness ==
    /\ fut = <<>>
    /\ Len(hist) = 2
    /\ Pretty(1)
    /\ hist[1].ev.kind = "Start" /\ hist[1].res = "Ok"
    /\ hist[2].ev.kind = "End" /\ hist[2].res = "Cancelled"
    /\ PreOf(2).indent[1].depth = 1
    /\ aw.indent[1].depth = 0
    /\ aw.indent[1].should_line_break
    /\ aw.writer.buf = Expected(hist[1].ev) \o <<"\n", "<">>

\* C16: in pretty mode the suppression of the line break after text lasts
\* one event: the event written right after a Text or CData event gets no
\* newline or indentation, and when that event is not itself Text or CData,
\* a Start, End, Empty, Comment, Decl, PI or DocType written right after it
\* is preceded by a newline and the indentation of the current depth.
C16_SuppressionOneEvent ==
    \A i \in 1..Len(hist) :
        ( /\ i < Len(hist)
          /\ Pretty(i)
          /\ IsEvent(i) /\ hist[i].ev.kind \in TextLike
          /\ IsEvent(i + 1) /\ Accepted(i + 1) )
        => /\ Appended(i + 1) = Expected(hist[i + 1].ev)
           /\ ( /\ i + 1 < Len(hist)
                /\ hist[i + 1].ev.kind \notin TextLike
                /\ IsEvent(i + 2) /\ IndentBefore(hist[i + 2].ev.kind)
                /\ Accepted(i + 2) )
              => Appended(i + 2) = LineBreakAt(i + 2) \o Expected(hist[i + 2].ev)

====
